---------------------------- MODULE Spec2Model ----------------------------
(***************************************************************************)
(* Model of the MSS-Agent validation core:                                 *)
(*   - DataValidator.validate_spreadsheet   (src/src/agents/data_validator.py)  *)
(*   - ValidationWorkflow.run               (src/src/workflows/validation_workflow.py) *)
(*   - ValidationWorkflow.run_all_sheets    (same file)                    *)
(* Python strings are modelled as sequences of one-character strings so    *)
(* that lower(), strip(), substring tests and formatting are computed.     *)
(***************************************************************************)
EXTENDS Integers, Sequences, FiniteSets, TLC

(***************************************************************************)
(* Bounds of the model.                                                    *)
(***************************************************************************)
MaxSheets == 2
MaxSchedules == 2
MaxSchedSheets == 1
MaxOrchSchedules == 1
MaxRows == 2

(***************************************************************************)
(* Strings.                                                                *)
(***************************************************************************)
UpperLetters == <<"A","B","C","D","E","F","G","H","I","J","K","L","M",
                  "N","O","P","Q","R","S","T","U","V","W","X","Y","Z">>
LowerLetters == <<"a","b","c","d","e","f","g","h","i","j","k","l","m",
                  "n","o","p","q","r","s","t","u","v","w","x","y","z">>

\* str.lower() on one character
LowerChar(c) ==
    IF \E i \in 1..26 : UpperLetters[i] = c
    THEN LowerLetters[CHOOSE i \in 1..26 : UpperLetters[i] = c]
    ELSE c

\* str.lower()
Lower(s) == [i \in 1..Len(s) |-> LowerChar(s[i])]

\* the Python test  sub in s
Contains(sub, s) ==
    \E i \in 0..(Len(s) - Len(sub)) : SubSeq(s, i + 1, i + Len(sub)) = sub

IsSpace(c) == c \in {" ", "\t", "\n"}

\* str.strip()
RECURSIVE LStrip(_)
LStrip(s) == IF s # <<>> /\ IsSpace(Head(s)) THEN LStrip(Tail(s)) ELSE s
RECURSIVE RStrip(_)
RStrip(s) == IF s # <<>> /\ IsSpace(s[Len(s)])
             THEN RStrip(SubSeq(s, 1, Len(s) - 1)) ELSE s
Strip(s) == RStrip(LStrip(s))

Digits == <<"0","1","2","3","4","5","6","7","8","9">>

\* str(n) for a non-negative integer
RECURSIVE NatToStr(_)
NatToStr(n) == IF n < 10 THEN <<Digits[n + 1]>>
               ELSE NatToStr(n \div 10) \o <<Digits[(n % 10) + 1]>>

\* str(n) for an integer
IntToStr(n) == IF n < 0 THEN <<"-">> \o NatToStr(0 - n) ELSE NatToStr(n)

\* sep.join(parts)
RECURSIVE Join(_, _)
Join(sep, parts) ==
    IF parts = <<>> THEN <<>>
    ELSE IF Len(parts) = 1 THEN parts[1]
    ELSE parts[1] \o sep \o Join(sep, Tail(parts))

(***************************************************************************)
(* Cell values of a DataFrame row: null (NaN / None), text, int, float.    *)
(* A float is kept as its integral value n and prints as "n.0".            *)
(***************************************************************************)
Null == [t |-> "null", s |-> <<>>, n |-> 0]
StrV(chars) == [t |-> "str", s |-> chars, n |-> 0]
IntV(k) == [t |-> "int", s |-> <<>>, n |-> k]
NpIntV(k) == [t |-> "npint", s |-> <<>>, n |-> k]
FloatV(k) == [t |-> "float", s |-> <<>>, n |-> k]

\* str(value)
StrOf(value) ==
    CASE value.t = "str" -> value.s
      [] value.t \in {"int", "npint"} -> IntToStr(value.n)
      [] value.t = "float" -> IntToStr(value.n) \o <<".", "0">>
      [] OTHER -> <<"n", "a", "n">>

\* pd.isnull(value)
isnull(value) == value.t = "null"

\* truth value of a cell in  `if frequency_value and ...`  (NaN is truthy)
Truthy(value) ==
    CASE value.t = "str" -> value.s # <<>>
      [] value.t \in {"int", "npint", "float"} -> value.n # 0
      [] OTHER -> TRUE


\* None (an absent Python value)
NoneV == [t |-> "none", s |-> <<>>, n |-> 0]

\* isinstance(value, (int, float)): true of int, float and numpy.float64, false
\* of numpy.int64
IsNumber(value) == value.t \in {"int", "float"}

\* isinstance(value, str)
IsStr(value) == value.t = "str"

RECURSIVE Flatten(_)
Flatten(ss) == IF ss = <<>> THEN <<>> ELSE Head(ss) \o Flatten(Tail(ss))

(***************************************************************************)
(* Text constants of the validator.  Literal fragments of Python format    *)
(* strings are kept as single tokens; column names and cell texts are      *)
(* character sequences.                                                    *)
(***************************************************************************)
W_frequency == <<"f","r","e","q","u","e","n","c","y">>
W_rank == <<"r","a","n","k">>
W_percent == <<"p","e","r","c","e","n","t">>
W_outcome_number == <<"o","u","t","c","o","m","e"," ","n","u","m","b","e","r">>
W_quarterly == <<"q","u","a","r","t","e","r","l","y">>
W_half_yearly_dash == <<"h","a","l","f","-","y","e","a","r","l","y">>
W_half_yearly_us == <<"h","a","l","f","_","y","e","a","r","l","y">>

\* data_validator.py line 73: the frequency values that skip a row
frequency_skip_keywords == {W_quarterly, W_half_yearly_dash, W_half_yearly_us}

\* data_validator.py line 37: default of rules.rank_threshold
default_rank_threshold == 5

\* data_validator.py lines 40-42: default of skip_columns
default_skip_columns ==
    << <<"q","1">>, <<"q","2">>, <<"q","3">>, <<"q","4">>, <<"h","1">>, <<"h","2">>,
       W_quarterly, W_half_yearly_us, W_half_yearly_dash >>

(***************************************************************************)
(* A table (DataFrame) is [columns, rows]: rows[r][c] is the cell of row r *)
(* (0-based index label r - 1) in column columns[c].  A sheet that cannot  *)
(* be loaded is [unreadable |-> message].                                  *)
(***************************************************************************)
IsReadable(table) == "columns" \in DOMAIN table

ColIndex(columns, col) == CHOOSE i \in 1..Len(columns) : columns[i] = col

\* the dtype pandas gives column c of a loaded sheet
column_dtype(table, c) ==
    IF \E r \in 1..Len(table.rows) : table.rows[r][c].t = "str" THEN "object"
    ELSE IF \E r \in 1..Len(table.rows) : table.rows[r][c].t \in {"float", "null"}
    THEN "float64"
    ELSE "int64"

\* the dtype of the Series that iterrows() yields for every row
row_dtype(dtypes) ==
    IF \E c \in 1..Len(dtypes) : dtypes[c] = "object" THEN "object"
    ELSE IF \E c \in 1..Len(dtypes) : dtypes[c] = "float64" THEN "float64"
    ELSE "int64"

\* the value a row of iterrows() holds for a cell: an integer of a float64
\* column or row is a float, an integer of an all-int64 frame is a numpy.int64,
\* an integer of an object row is a Python int
iterrows_value(value, cdtype, rdtype) ==
    IF value.t # "int" \/ cdtype = "object" THEN value
    ELSE IF cdtype = "float64" \/ rdtype = "float64" THEN FloatV(value.n)
    ELSE IF rdtype = "object" THEN value
    ELSE NpIntV(value.n)

iterrows_rows(table, dtypes, rdtype) ==
    [r \in 1..Len(table.rows) |->
        [c \in 1..Len(table.columns) |->
            iterrows_value(table.rows[r][c], dtypes[c], rdtype)]]

iterrows_with(table, dtypes) ==
    [columns |-> table.columns, rows |-> iterrows_rows(table, dtypes, row_dtype(dtypes))]

\* lines 34 and 61: the sheet as the row loop sees it
iterrows(table) ==
    iterrows_with(table, [c \in 1..Len(table.columns) |-> column_dtype(table, c)])

\* row[col]
Cell(table, r, col) == table.rows[r][ColIndex(table.columns, col)]

\* line 45
validation_columns(table, cfg) ==
    SelectSeq(table.columns,
              LAMBDA col : ~ \E k \in 1..Len(cfg.skip_columns) :
                                Contains(Lower(cfg.skip_columns[k]), Lower(col)))

\* line 48
percentage_columns(vcols) ==
    SelectSeq(vcols, LAMBDA col : Contains(<<"%">>, col) \/ Contains(W_percent, Lower(col)))

\* line 49
rank_columns(vcols) ==
    SelectSeq(vcols, LAMBDA col : Contains(W_rank, Lower(col)))

InSeq(x, s) == \E i \in 1..Len(s) : s[i] = x

\* lines 52-56: the first column whose name contains "frequency", or <<>> (None)
freq_col(table) ==
    LET hits == SelectSeq(table.columns, LAMBDA col : Contains(W_frequency, Lower(col)))
    IN  IF hits = <<>> THEN <<>> ELSE hits[1]

\* float(str(value)) succeeds: optional blanks, optional sign, digits with at
\* most one point (at least one digit), or one of nan / inf / infinity
IsDigit(c) == \E i \in 1..10 : Digits[i] = c
ParsesAsFloat(chars) ==
    LET body == Strip(chars)
        unsigned == IF body # <<>> /\ body[1] \in {"+", "-"} THEN Tail(body) ELSE body
        points == {i \in 1..Len(unsigned) : unsigned[i] = "."}
        digits == {i \in 1..Len(unsigned) : IsDigit(unsigned[i])}
    IN  \/ Lower(unsigned) \in {<<"n","a","n">>, <<"i","n","f">>,
                                <<"i","n","f","i","n","i","t","y">>}
        \/ /\ digits # {}
           /\ Cardinality(points) <= 1
           /\ points \cup digits = 1..Len(unsigned)

(***************************************************************************)
(* DataValidator.validate_spreadsheet, the per-row part (lines 61-123).    *)
(***************************************************************************)
\* only null counts as missing
IsMissing_null_only(value) == isnull(value)

\* line 85: the cell counts as missing
IsMissing(value) == isnull(value) \/ (IsStr(value) /\ Strip(value.s) = <<>>)

\* line 95; text is str(value)
RankMessage(col, text, rank_threshold) ==
    col \o <<": ">> \o text \o <<" exceeds rank threshold (">>
        \o IntToStr(rank_threshold) \o <<")">>

\* line 102; text is str(value)
NumberMessage(col, text) ==
    col \o <<": '">> \o text \o <<"' is not a valid number">>

\* a rank check that also flags the threshold itself
RankCheck_inclusive(col, value, text, rank_threshold) ==
    IF value.n >= rank_threshold THEN <<RankMessage(col, text, rank_threshold)>> ELSE <<>>

\* lines 93-95: the rank check of a numeric value
RankCheck(col, value, text, rank_threshold) ==
    IF value.n > rank_threshold THEN <<RankMessage(col, text, rank_threshold)>> ELSE <<>>

\* a number check that lets everything pass
NumberCheck_silent(col, text) == <<>>

\* lines 98-102: the number check of an outcome-number value
NumberCheck(col, text) ==
    IF ParsesAsFloat(text) THEN <<>> ELSE <<NumberMessage(col, text)>>

\* checks made one after the other, whatever the column's other roles
CheckColumn_every_role(value, text, col, pcols, rcols, rank_threshold) ==
    IF IsMissing(value)
    THEN [missing |-> <<col>>, invalid |-> <<>>]
    ELSE [missing |-> <<>>,
          invalid |->
              (IF InSeq(col, rcols) /\ IsNumber(value)
               THEN RankCheck(col, value, text, rank_threshold) ELSE <<>>)
              \o (IF Contains(W_outcome_number, Lower(col))
                  THEN NumberCheck(col, text) ELSE <<>>)]

\* lines 84-102 for one validated column: what it appends to missing_values
\* and to invalid_values; pcols and rcols are percentage_columns and
\* rank_columns, text is str(value)
CheckColumn(value, text, col, pcols, rcols, rank_threshold) ==
    IF IsMissing(value)
    THEN [missing |-> <<col>>, invalid |-> <<>>]
    ELSE IF InSeq(col, pcols)
    THEN [missing |-> <<>>, invalid |-> <<>>]
    ELSE IF InSeq(col, rcols) /\ IsNumber(value)
    THEN [missing |-> <<>>, invalid |-> RankCheck(col, value, text, rank_threshold)]
    ELSE IF Contains(W_outcome_number, Lower(col)) /\ ~ isnull(value)
    THEN [missing |-> <<>>, invalid |-> NumberCheck(col, text)]
    ELSE [missing |-> <<>>, invalid |-> <<>>]

\* lines 70-72: the frequency cell of the row (None without a frequency
\* column); fcol is freq_col
frequency_value(table, fcol, r) ==
    IF fcol # <<>> THEN Cell(table, r, fcol) ELSE NoneV

\* a comparison of the frequency text that keeps its case
should_validate_case_sensitive(fv, text) ==
    ~ ( /\ fv # NoneV
        /\ Truthy(fv)
        /\ text \in frequency_skip_keywords )

\* lines 69-74 (None is falsy, so a table without frequency column validates);
\* text is str(frequency_value)
should_validate(fv, text) ==
    ~ ( /\ fv # NoneV
        /\ Truthy(fv)
        /\ Lower(text) \in frequency_skip_keywords )

\* lines 105-106
MissingStatus(missing_values) == IF missing_values # <<>> THEN "missing" ELSE "valid"

\* an invalid finding that overrides the missing status
InvalidStatus_overriding(row_status, invalid_values) ==
    IF invalid_values # <<>> THEN "invalid" ELSE row_status

\* lines 109-111
InvalidStatus(row_status, invalid_values) ==
    IF invalid_values # <<>> /\ row_status = "valid" THEN "invalid" ELSE row_status

\* lines 107 and 112: row_details of a validated row
ValidatedDetails(missing_values, invalid_values) ==
    (IF missing_values # <<>>
     THEN << <<"Missing values in: ">> \o Join(<<",", " ">>, missing_values) >>
     ELSE <<>>)
    \o invalid_values

\* line 118
DetailsText(row_details) ==
    IF row_details # <<>> THEN Join(<<";", " ">>, row_details)
    ELSE <<"All validations passed">>

\* a verdict that carries the 0-based index label
Verdict_zero_based(r, row_status, row_details, missing_values, invalid_values, checked, fv) ==
    [ row_index |-> r - 1,
      status |-> row_status,
      details |-> DetailsText(row_details),
      missing_columns |-> missing_values,
      invalid_values |-> invalid_values,
      validation_columns_checked |-> checked,
      frequency_info |-> fv ]

\* lines 115-123: the dict stored for row r (index label r - 1)
Verdict(r, row_status, row_details, missing_values, invalid_values, checked, fv) ==
    [ row_index |-> (r - 1) + 1,
      status |-> row_status,
      details |-> DetailsText(row_details),
      missing_columns |-> missing_values,
      invalid_values |-> invalid_values,
      validation_columns_checked |-> checked,
      frequency_info |-> fv ]

\* lines 104-123 of a validated row
ValidatedVerdict(r, missing_values, invalid_values, checked, fv) ==
    Verdict(r, InvalidStatus(MissingStatus(missing_values), invalid_values),
            ValidatedDetails(missing_values, invalid_values),
            missing_values, invalid_values, checked, fv)

\* lines 74-76 and 115-123 of a skipped row
SkippedVerdict(r, checked, fv, text) ==
    Verdict(r, "skipped", << <<"Skipped due to frequency: ">> \o text >>,
            <<>>, <<>>, checked, fv)

\* lines 80-102: the checks of every validated column of row r
RowChecks(table, cfg, vcols, pcols, rcols, r) ==
    [k \in 1..Len(vcols) |->
        CheckColumn(Cell(table, r, vcols[k]), StrOf(Cell(table, r, vcols[k])),
                    vcols[k], pcols, rcols, cfg.rank_threshold)]

\* lines 78-123: the row is validated or skipped
VerdictOf(r, validate, checks, checked, fv, text) ==
    IF validate
    THEN ValidatedVerdict(r, Flatten([k \in 1..Len(checks) |-> checks[k].missing]),
                          Flatten([k \in 1..Len(checks) |-> checks[k].invalid]),
                          checked, fv)
    ELSE SkippedVerdict(r, checked, fv, text)

\* lines 61-123 for a row whose frequency cell is fv
RowVerdictWith(table, cfg, vcols, pcols, rcols, r, fv, text) ==
    VerdictOf(r, should_validate(fv, text),
              RowChecks(table, cfg, vcols, pcols, rcols, r), Len(vcols), fv, text)

\* lines 61-123: the verdict of row r; vcols, pcols, rcols and fcol are
\* validation_columns, percentage_columns, rank_columns and freq_col
RowVerdict(table, cfg, vcols, pcols, rcols, fcol, r) ==
    RowVerdictWith(table, cfg, vcols, pcols, rcols, r,
                   frequency_value(table, fcol, r),
                   StrOf(frequency_value(table, fcol, r)))

\* lines 192-196: rows whose cells are all null
EmptyRows(table) ==
    SelectSeq([r \in 1..Len(table.rows) |-> r],
              LAMBDA r : \A c \in 1..Len(table.columns) : isnull(table.rows[r][c]))

\* line 201: the rows with a null in the column
NullRows(table, col) ==
    SelectSeq([r \in 1..Len(table.rows) |-> r], LAMBDA r : isnull(Cell(table, r, col)))

\* df.isnull().sum(axis=1) of row r
NullCount(table, r) ==
    Cardinality({c \in 1..Len(table.columns) : isnull(table.rows[r][c])})

\* lines 211-216: rows with more than half of their cells null
ManyMissing(table) ==
    SelectSeq([r \in 1..Len(table.rows) |-> r],
              LAMBDA r : 2 * NullCount(table, r) > Len(table.columns))

\* line 218
RECURSIVE TotalMissing(_, _)
TotalMissing(table, r) ==
    IF r = 0 THEN 0 ELSE TotalMissing(table, r - 1) + NullCount(table, r)

\* index labels (0-based) of row positions
Labels(positions) == [i \in 1..Len(positions) |-> positions[i] - 1]

\* lines 199-209
MissingByColumn(table, flagged) ==
    [i \in 1..Len(flagged) |->
        [ column |-> flagged[i],
          count |-> Len(NullRows(table, flagged[i])),
          rows |-> Labels(NullRows(table, flagged[i])) ]]

\* lines 185-220, from the three findings
\* (the key rows_with_many_missing exists only when there are such rows)
MissingData(table, empty_rows, flagged, many_missing) ==
    IF many_missing # <<>>
    THEN [ has_missing_data |-> TRUE,
           missing_rows |-> Labels(empty_rows),
           missing_by_column |-> MissingByColumn(table, flagged),
           rows_with_many_missing |-> Labels(many_missing),
           total_missing_values |-> TotalMissing(table, Len(table.rows)) ]
    ELSE [ has_missing_data |-> empty_rows # <<>> \/ flagged # <<>>,
           missing_rows |-> Labels(empty_rows),
           missing_by_column |-> MissingByColumn(table, flagged),
           total_missing_values |-> TotalMissing(table, Len(table.rows)) ]

\* a check that looks for nulls in every column of the table
check_missing_data_every_column(table, cfg) ==
    MissingData(table, EmptyRows(table),
                SelectSeq(table.columns, LAMBDA col : NullRows(table, col) # <<>>),
                ManyMissing(table))

\* lines 175-220
check_missing_data(table, cfg) ==
    MissingData(table, EmptyRows(table),
                SelectSeq(cfg.non_nullable_columns,
                          LAMBDA col : InSeq(col, table.columns)
                                       /\ NullRows(table, col) # <<>>),
                ManyMissing(table))

\* an errors list that takes the valid verdicts as well
IsError_every_verdict(r) == r.status \in {"error", "invalid", "valid"}

\* line 150
IsError(r) == r.status \in {"error", "invalid"}

\* line 151
IsWarning(r) == r.status = "missing"

\* line 127
IsValidRow(r) == r.status = "valid"

\* error rows counted as the rows of the errors list
IsErrorRow_listed(r) == IsError(r)

\* line 128
IsErrorRow(r) == r.status # "valid"

\* lines 126-140
Summary(table, cfg, vcols, skipped, valid_rows, error_rows) ==
    [ total_rows |-> Len(table.rows),
      valid_rows |-> valid_rows,
      error_rows |-> error_rows,
      validation_rate |-> IF Len(table.rows) > 0
                          THEN [num |-> valid_rows * 100, den |-> Len(table.rows)]
                          ELSE [num |-> 0, den |-> 1],
      total_columns |-> Len(table.columns),
      validation_columns |-> Len(vcols),
      skipped_columns |-> skipped,
      columns |-> table.columns,
      rank_threshold_used |-> cfg.rank_threshold ]

\* a report that is valid when its errors list is empty
Report_valid_without_errors(table, cfg, vcols, skipped, product_issue_results) ==
    [ is_valid |-> SelectSeq(product_issue_results, IsError) = <<>>,
      errors |-> SelectSeq(product_issue_results, IsError),
      warnings |-> SelectSeq(product_issue_results, IsWarning),
      missing_data_details |-> check_missing_data(table, cfg),
      summary |-> Summary(table, cfg, vcols, skipped,
                          Len(SelectSeq(product_issue_results, IsValidRow)),
                          Len(SelectSeq(product_issue_results, IsErrorRow))),
      product_issue_results |-> product_issue_results,
      validation_metadata |-> [ full_row_validation |-> TRUE,
                                columns_validated |-> vcols,
                                columns_skipped |-> skipped,
                                rank_threshold |-> cfg.rank_threshold ] ]

\* lines 145-161
Report(table, cfg, vcols, skipped, product_issue_results) ==
    [ is_valid |-> \A i \in 1..Len(product_issue_results) :
                       product_issue_results[i].status = "valid",
      errors |-> SelectSeq(product_issue_results, IsError),
      warnings |-> SelectSeq(product_issue_results, IsWarning),
      missing_data_details |-> check_missing_data(table, cfg),
      summary |-> Summary(table, cfg, vcols, skipped,
                          Len(SelectSeq(product_issue_results, IsValidRow)),
                          Len(SelectSeq(product_issue_results, IsErrorRow))),
      product_issue_results |-> product_issue_results,
      validation_metadata |-> [ full_row_validation |-> TRUE,
                                columns_validated |-> vcols,
                                columns_skipped |-> skipped,
                                rank_threshold |-> cfg.rank_threshold ] ]

\* a failure report that records no error
FailureReport_silent(message) ==
    [ is_valid |-> FALSE,
      errors |-> <<>>,
      warnings |-> <<>>,
      missing_data_details |-> <<>>,
      summary |-> <<>> ]

\* lines 163-173: the except branch
FailureReport(message) ==
    [ is_valid |-> FALSE,
      errors |-> << [type |-> "validation_error", message |-> message] >>,
      warnings |-> <<>>,
      missing_data_details |-> <<>>,
      summary |-> <<>> ]

\* lines 58-123: the verdicts of all rows
Verdicts(table, cfg, vcols, pcols, fcol) ==
    [r \in 1..Len(table.rows) |->
        RowVerdict(table, cfg, vcols, pcols, rank_columns(vcols), fcol, r)]

\* lines 36-161 for a loaded table with validated columns vcols
Validated(table, cfg, vcols) ==
    Report(table, cfg, vcols,
           SelectSeq(table.columns, LAMBDA col : ~ InSeq(col, vcols)),
           Verdicts(table, cfg, vcols, percentage_columns(vcols), freq_col(table)))

\* lines 24-173
validate_spreadsheet(table, cfg) ==
    IF IsReadable(table)
    THEN Validated(iterrows(table), cfg, validation_columns(table, cfg))
    ELSE FailureReport(table.unreadable)

(***************************************************************************)
(* The program state.                                                      *)
(*   inputs:  sheets (the workbook's sheets, in sheet_names order),        *)
(*            excel_opens (pd.ExcelFile(file_path) succeeds),              *)
(*            product_schedule (validator.product_schedule, in dict order: *)
(*            {} as DataValidator.__init__ leaves it, since Config has no  *)
(*            product_schedule, or the dict assigned to the attribute),    *)
(*            now (datetime.now(): month and day), validation_config       *)
(*   run_all_sheets / run:  pc, the locals all_errors, all_valid and       *)
(*            should_send_periodic, the returned workflow_result, and      *)
(*            notifier_calls, the log of calls made on self.notifier       *)
(*   parse_excel_file:  file_path and file_exists (the argument and        *)
(*            whether it is on disk), parse_outcome (what the call did)    *)
(*   previous:  the dict returned by the run_all_sheets call before the    *)
(*            current one on the same workflow object (None for the first) *)
(* Timestamps, workflow_id and file_path are left out of the records.      *)
(***************************************************************************)
VARIABLES sheets, excel_opens, product_schedule, now, validation_config,
          pc, all_errors, all_valid, should_send_periodic, workflow_result,
          notifier_calls, file_path, file_exists, parse_outcome, previous

vars == <<sheets, excel_opens, product_schedule, now, validation_config,
          pc, all_errors, all_valid, should_send_periodic, workflow_result,
          notifier_calls, file_path, file_exists, parse_outcome, previous>>

inputs == <<sheets, excel_opens, product_schedule, now, validation_config,
            file_path, file_exists>>

\* a key a dict does not hold
Absent == "absent"

\* an optional schedule parameter: <<>> is None (dict.get of a missing key),
\* <<v>> is the value v
None == <<>>
Some(v) == <<v>>

\* sheet_names[i] of the workbook
SheetName(i) == <<"Sheet">> \o IntToStr(i)

(***************************************************************************)
(* The deadline test of one schedule: validation_workflow.py lines 72-87   *)
(* (and again lines 169-189).  int(None) raises TypeError.                 *)
(***************************************************************************)
MonthlyWindow == 7
BiAnnualWindow == 7
AnnualWindow == 28

\* a window that opens one day late
DayReached_strict(deadline_day, window) ==
    IF deadline_day = None THEN "raise"
    ELSE IF now.day > deadline_day[1] - window THEN "due" ELSE "not_due"

DayReached(deadline_day, window) ==
    IF deadline_day = None THEN "raise"
    ELSE IF now.day >= deadline_day[1] - window THEN "due" ELSE "not_due"

schedule_check(schedule) ==
    IF schedule.frequency = "monthly"
    THEN DayReached(schedule.deadline_day, MonthlyWindow)
    ELSE IF schedule.frequency = "bi-annual"
    THEN IF now.month \in schedule.deadline_months
         THEN DayReached(schedule.deadline_day, BiAnnualWindow)
         ELSE "not_due"
    ELSE IF schedule.frequency = "annual"
    THEN IF Some(now.month) = schedule.deadline_month
         THEN DayReached(schedule.deadline_day, AnnualWindow)
         ELSE "not_due"
    ELSE "not_due"

\* lines 69-87: the loop over product_schedule.items(); the first schedule
\* that raises ends it
RECURSIVE periodic_loop(_, _)
periodic_loop(schedules, acc) ==
    IF schedules = <<>> THEN [raised |-> FALSE, value |-> acc]
    ELSE LET c == schedule_check(Head(schedules))
         IN  IF c = "raise" THEN [raised |-> TRUE, value |-> acc]
             ELSE periodic_loop(Tail(schedules), acc \/ (c = "due"))

(***************************************************************************)
(* ValidationWorkflow.run (lines 132-217), called with one sheet.  `sent`  *)
(* is what the notifier returns.  The result is the returned dict and the  *)
(* notifier calls made.                                                    *)
(***************************************************************************)
\* a report summary that carries a dataframe with the product P1
dataframe_of_with_product(validation_result) == << <<"P", "1">> >>

\* line 163
dataframe_of(validation_result) ==
    IF "dataframe" \in DOMAIN validation_result.summary
    THEN validation_result.summary.dataframe
    ELSE NoneV

\* lines 192-204: the fallback notification
run_fallback(validation_result) ==
    IF ~ validation_result.is_valid
    THEN [method |-> "send_missing_data_notification",
          notification_type |-> "missing_data",
          workflow_status |-> "completed_with_issues"]
    ELSE [method |-> "send_completion_notification",
          notification_type |-> "completion",
          workflow_status |-> "completed_success"]

\* lines 167-189: the schedules that notify when the report carries a dataframe
run_schedule_hits(df) ==
    IF df = NoneV THEN <<>>
    ELSE SelectSeq(product_schedule,
                   LAMBDA schedule : /\ schedule_check(schedule) = "due"
                                     /\ InSeq(schedule.product, df))

\* lines 167-189: whether the loop raises (int(None)) when entered
run_schedule_raises(df) ==
    df # NoneV /\ periodic_loop(product_schedule, FALSE).raised

\* the dict run() returns
run_result(sheet_name, validation_result, sent, workflow_status, notification_type, error) ==
    [ sheet_name |-> sheet_name,
      validation_result |-> validation_result,
      notification_sent |-> sent,
      workflow_status |-> workflow_status,
      notification_type |-> notification_type,
      error |-> error ]

\* a call on self.notifier
Call(method, caller, sheet_name, sent) ==
    [method |-> method, caller |-> caller, sheet |-> sheet_name, sent |-> sent]

\* lines 160-217, from the validation result; raises and hits are the outcome
\* of the schedule loop, fb the fallback notification
run_notify(validation_result, sheet_name, sent, raises, hits, fb) ==
    IF raises
    THEN [result |-> run_result(sheet_name, validation_result, FALSE, "failed",
                                Absent, "TypeError"),
          calls |-> <<>>]
    ELSE IF hits # <<>> /\ sent
    THEN [result |-> run_result(sheet_name, validation_result, TRUE,
                                "completed_with_issues", "missing_data_periodic", Absent),
          calls |-> [k \in 1..Len(hits) |->
                        Call("send_missing_data_notification", "run", sheet_name, sent)]]
    ELSE [result |-> run_result(sheet_name, validation_result, sent,
                                fb.workflow_status, fb.notification_type, Absent),
          calls |-> [k \in 1..Len(hits) |->
                        Call("send_missing_data_notification", "run", sheet_name, sent)]
                    \o <<Call(fb.method, "run", sheet_name, sent)>>]

\* lines 156-217, from the validation result
run_validated(validation_result, sheet_name, sent, df) ==
    run_notify(validation_result, sheet_name, sent, run_schedule_raises(df),
               run_schedule_hits(df), run_fallback(validation_result))

\* lines 132-217
run_with(validation_result, sheet_name, sent) ==
    run_validated(validation_result, sheet_name, sent, dataframe_of(validation_result))

run(table, sheet_name, sent) ==
    run_with(validate_spreadsheet(table, validation_config), sheet_name, sent)


(***************************************************************************)
(* ValidationWorkflow.run_all_sheets (lines 21-130).                       *)
(***************************************************************************)
\* lines 33-41
initial_workflow_result ==
    [ all_sheets_results |-> <<>>,
      aggregated_result |-> NoneV,
      notification_sent |-> FALSE,
      workflow_status |-> "started",
      notification_type |-> Absent,
      error |-> Absent ]

\* an except branch that starts the result over
failed_with_reset(result, message) ==
    [initial_workflow_result EXCEPT !.error = message, !.workflow_status = "failed"]

\* lines 124-127: the except branch
failed_with(result, message) ==
    [result EXCEPT !.error = message, !.workflow_status = "failed"]

\* line 63: error['sheet'] = sheet
Tag(error, sheet) ==
    [k \in DOMAIN error \cup {"sheet"} |-> IF k = "sheet" THEN sheet ELSE error[k]]

\* lines 61-64 write the sheet into the error dicts of the report itself: the
\* entries of errors are the same objects as those of product_issue_results
tagged_report(validation_result, sheet) ==
    LET tagged == [k \in DOMAIN validation_result \ {"errors", "product_issue_results"}
                      |-> validation_result[k]]
        errs == [i \in 1..Len(validation_result.errors)
                    |-> Tag(validation_result.errors[i], sheet)]
    IN  IF "product_issue_results" \in DOMAIN validation_result
        THEN tagged @@
             [ errors |-> errs,
               product_issue_results |->
                   [i \in 1..Len(validation_result.product_issue_results) |->
                       IF IsError(validation_result.product_issue_results[i])
                       THEN Tag(validation_result.product_issue_results[i], sheet)
                       ELSE validation_result.product_issue_results[i]] ]
        ELSE tagged @@ [errors |-> errs]

\* all_valid overwritten by the last sheet
next_all_valid_last(valid_so_far, validation_result) == validation_result.is_valid

\* lines 59-60: all_valid after one more sheet
next_all_valid(valid_so_far, validation_result) ==
    IF ~ validation_result.is_valid THEN FALSE ELSE valid_so_far

\* the errors of the new sheet put in front
next_all_errors_in_front(errors_so_far, validation_result, sheet) ==
    IF ~ validation_result.is_valid
    THEN [i \in 1..Len(validation_result.errors)
             |-> Tag(validation_result.errors[i], sheet)] \o errors_so_far
    ELSE errors_so_far

\* lines 61-64: all_errors after one more sheet
next_all_errors(errors_so_far, validation_result, sheet) ==
    IF ~ validation_result.is_valid
    THEN errors_so_far \o [i \in 1..Len(validation_result.errors)
                              |-> Tag(validation_result.errors[i], sheet)]
    ELSE errors_so_far

\* a decision that looks at the periodic trigger only
decision_periodic_only(valid, periodic) ==
    IF periodic
    THEN [method |-> "send_missing_data_notification",
          notification_type |-> "missing_data_aggregated",
          workflow_status |-> "completed_with_issues",
          message |-> "has missing/invalid data. Please check the attached summary."]
    ELSE [method |-> "send_completion_notification",
          notification_type |-> "completion_aggregated",
          workflow_status |-> "completed_success",
          message |-> "has no issues. All sheets validated successfully."]

\* lines 107-119: which notification the aggregate gets
decision(valid, periodic) ==
    IF ~ valid \/ periodic
    THEN [method |-> "send_missing_data_notification",
          notification_type |-> "missing_data_aggregated",
          workflow_status |-> "completed_with_issues",
          message |-> "has missing/invalid data. Please check the attached summary."]
    ELSE [method |-> "send_completion_notification",
          notification_type |-> "completion_aggregated",
          workflow_status |-> "completed_success",
          message |-> "has no issues. All sheets validated successfully."]

\* a call that keeps the error list and the flag of the call before it
start_run_all_sheets_keeping ==
    /\ pc = "idle"
    /\ IF excel_opens
       THEN /\ workflow_result' = initial_workflow_result
            /\ pc' = "sheets"
       ELSE /\ workflow_result' = failed_with(initial_workflow_result, "ExcelFile")
            /\ pc' = "end"
    /\ UNCHANGED <<inputs, all_errors, all_valid, should_send_periodic, notifier_calls,
                   parse_outcome, previous>>

\* lines 33-52: the call, up to the first sheet
start_run_all_sheets ==
    /\ pc = "idle"
    /\ IF excel_opens
       THEN /\ workflow_result' = initial_workflow_result
            /\ pc' = "sheets"
       ELSE /\ workflow_result' = failed_with(initial_workflow_result, "ExcelFile")
            /\ pc' = "end"
    /\ all_errors' = <<>>
    /\ all_valid' = TRUE
    /\ UNCHANGED <<inputs, should_send_periodic, notifier_calls, parse_outcome, previous>>

\* lines 54-64: one pass of the loop over sheet_names, run() included
run_sheet ==
    /\ pc = "sheets"
    /\ Len(workflow_result.all_sheets_results) < Len(sheets)
    /\ \E sent \in BOOLEAN, i \in {Len(workflow_result.all_sheets_results) + 1} :
       \E r \in {run(sheets[i], SheetName(i), sent)} :
          LET sheet == SheetName(i)
              validation_result == r.result.validation_result
              stored == IF ~ validation_result.is_valid
                        THEN [r.result EXCEPT !.validation_result =
                                 tagged_report(validation_result, sheet)]
                        ELSE r.result
          IN  /\ notifier_calls' = notifier_calls \o r.calls
              /\ workflow_result' =
                    [workflow_result EXCEPT !.all_sheets_results = Append(@, stored)]
              /\ all_valid' = next_all_valid(all_valid, validation_result)
              /\ all_errors' = next_all_errors(all_errors, validation_result, sheet)
    /\ UNCHANGED <<inputs, pc, should_send_periodic, parse_outcome, previous>>

\* lines 66-87: the periodic check, after the last sheet
check_periodic ==
    /\ pc = "sheets"
    /\ Len(workflow_result.all_sheets_results) = Len(sheets)
    /\ \E loop \in {periodic_loop(product_schedule, FALSE)} :
           IF loop.raised
           THEN /\ workflow_result' = failed_with(workflow_result, "TypeError")
                /\ pc' = "end"
                /\ UNCHANGED should_send_periodic
           ELSE /\ should_send_periodic' = loop.value
                /\ pc' = "aggregate"
                /\ UNCHANGED workflow_result
    /\ UNCHANGED <<inputs, all_errors, all_valid, notifier_calls, parse_outcome, previous>>

\* lines 89-102
aggregate(valid, errors, periodic, message) ==
    [ total_sheets |-> Len(sheets),
      is_valid |-> valid,
      errors |-> errors,
      summary |-> [ sheets_processed |-> [i \in 1..Len(sheets) |-> SheetName(i)],
                    total_errors |-> Len(errors),
                    errors_by_sheet |->
                        [i \in 1..Len(sheets) |->
                            Len(SelectSeq(errors, LAMBDA e : e.sheet = SheetName(i)))] ],
      periodic_trigger |-> periodic,
      message |-> message ]

\* a summary notification that is sent again when the first call fails
aggregate_and_notify_retrying ==
    /\ pc = "aggregate"
    /\ \E sent \in BOOLEAN, d \in {decision(all_valid, should_send_periodic)} :
           /\ notifier_calls' =
                 notifier_calls \o
                 [i \in 1..(IF sent THEN 1 ELSE 2) |->
                     [method |-> d.method, caller |-> "run_all_sheets",
                      sheet |-> <<>>, sent |-> sent]]
           /\ workflow_result' =
                 [workflow_result EXCEPT
                     !.aggregated_result =
                         aggregate(all_valid, all_errors, should_send_periodic, d.message),
                     !.notification_type = d.notification_type,
                     !.workflow_status = d.workflow_status,
                     !.notification_sent = sent]
    /\ pc' = "end"
    /\ UNCHANGED <<inputs, all_errors, all_valid, should_send_periodic, parse_outcome,
                   previous>>

\* lines 89-122: the aggregate report and the one summary notification
aggregate_and_notify ==
    /\ pc = "aggregate"
    /\ \E sent \in BOOLEAN, d \in {decision(all_valid, should_send_periodic)} :
              /\ notifier_calls' = Append(notifier_calls,
                    [method |-> d.method, caller |-> "run_all_sheets",
                     sheet |-> <<>>, sent |-> sent])
              /\ workflow_result' =
                    [workflow_result EXCEPT
                        !.aggregated_result =
                            aggregate(all_valid, all_errors, should_send_periodic, d.message),
                        !.notification_type = d.notification_type,
                        !.workflow_status = d.workflow_status,
                        !.notification_sent = sent]
    /\ pc' = "end"
    /\ UNCHANGED <<inputs, all_errors, all_valid, should_send_periodic, parse_outcome,
                   previous>>

\* lines 129-130
return_run_all_sheets ==
    /\ pc = "end"
    /\ pc' = "done"
    /\ UNCHANGED <<inputs, all_errors, all_valid, should_send_periodic,
                   workflow_result, notifier_calls, parse_outcome, previous>>

\* ui_app.py lines 116-118: the button is pressed again and run_all_sheets
\* is called a second time on the same workbook; the result of the first
\* call is kept for comparison, everything else is left as the call left it
run_again ==
    /\ pc = "done"
    /\ previous = NoneV
    /\ previous' = workflow_result
    /\ pc' = "idle"
    /\ UNCHANGED <<inputs, all_errors, all_valid, should_send_periodic,
                   workflow_result, notifier_calls, parse_outcome>>

NextTwice ==
    \/ start_run_all_sheets
    \/ run_sheet
    \/ check_periodic
    \/ aggregate_and_notify
    \/ return_run_all_sheets
    \/ run_again

(***************************************************************************)
(* ExcelParser.parse_excel_file: utils/excel_parser.py lines 17-54          *)
(***************************************************************************)
\* line 15
supported_formats == { <<".","x","l","s","x">>, <<".","x","l","s">> }

\* str.rfind(ch): the last position of ch in s, 0 when there is none
LastIndexOf(ch, s) ==
    IF \E i \in 1..Len(s) : s[i] = ch
    THEN CHOOSE i \in 1..Len(s) : s[i] = ch /\ \A j \in (i + 1)..Len(s) : s[j] # ch
    ELSE 0

\* Path(path).suffix: the part of the last path component from its last dot
\* on, empty when the component has no dot, starts with its only dot or
\* ends with the dot
suffix(path) ==
    LET name == SubSeq(path, LastIndexOf("/", path) + 1, Len(path))
        dot == LastIndexOf(".", name)
    IN  IF dot > 1 /\ dot < Len(name) THEN SubSeq(name, dot, Len(name)) ELSE <<>>

\* lines 32-54: what the call does; reads is whether pd.read_excel returns
parse_excel_file(path, exists, reads) ==
    IF ~ exists THEN "FileNotFoundError"
    ELSE IF Lower(suffix(path)) \notin supported_formats THEN "ValueError"
    ELSE IF reads THEN "DataFrame"
    ELSE "read_excel error"

\* one call of parse_excel_file(file_path)
call_parse_excel_file ==
    /\ pc = "parse"
    /\ \E reads \in BOOLEAN :
           parse_outcome' = parse_excel_file(file_path, file_exists, reads)
    /\ pc' = "parsed"
    /\ UNCHANGED <<inputs, all_errors, all_valid, should_send_periodic,
                   workflow_result, notifier_calls, previous>>

NextParse == call_parse_excel_file

\* main.py line 69: workflow.run(file_path, args.sheet) on one sheet
main_run ==
    /\ pc = "main"
    /\ \E sent \in BOOLEAN :
       \E r \in {run(sheets[1], SheetName(1), sent)} :
          /\ workflow_result' = r.result
          /\ notifier_calls' = r.calls
    /\ pc' = "main_done"
    /\ UNCHANGED <<inputs, all_errors, all_valid, should_send_periodic, parse_outcome,
                   previous>>

NextRun == main_run

Next ==
    \/ start_run_all_sheets
    \/ run_sheet
    \/ check_periodic
    \/ aggregate_and_notify
    \/ return_run_all_sheets

(***************************************************************************)
(* Inputs.                                                                 *)
(***************************************************************************)
SeqsUpTo(S, n) == UNION {[1..k -> S] : k \in 0..n}

C_ID == <<"I","D">>
C_Rank == <<"R","a","n","k">>
C_Freq == <<"F","r","e","q","u","e","n","c","y">>

\* validation_config with the defaults of lines 20-21, 37 and 40-42
default_config ==
    [ rank_threshold |-> default_rank_threshold,
      skip_columns |-> default_skip_columns,
      required_columns |-> <<>>,
      non_nullable_columns |-> <<>> ]

\* every row valid
T_valid == [columns |-> <<C_ID, C_Rank>>,
            rows |-> << <<StrV(<<"a">>), IntV(3)>>, <<StrV(<<"b">>), IntV(5)>> >>]
\* rows 1 and 3 over the rank threshold
T_invalid == [columns |-> <<C_ID, C_Rank>>,
              rows |-> << <<StrV(<<"a">>), IntV(7)>>, <<StrV(<<"b">>), IntV(3)>>,
                          <<StrV(<<"c">>), IntV(9)>> >>]
\* row 1 missing and over the threshold, row 2 over the threshold
T_mixed == [columns |-> <<C_ID, C_Rank>>,
            rows |-> << <<Null, IntV(7)>>, <<StrV(<<"b">>), IntV(9)>> >>]
\* row 1 skipped for its frequency, row 2 with a missing value: no invalid row
T_skipped == [columns |-> <<C_Rank, C_Freq>>,
              rows |-> << <<IntV(7), StrV(<<"Q","u","a","r","t","e","r","l","y">>)>>,
                          <<Null, StrV(<<"M","o","n","t","h","l","y">>)>> >>]
\* a sheet the parser cannot load
T_unreadable == [unreadable |-> "Worksheet not found"]

\* the sheets given to a single run(): up to MaxRows rows over the columns
\* Rank, Outcome Number and Frequency
C_Outcome == <<"O","u","t","c","o","m","e"," ","N","u","m","b","e","r">>
RankCells == {Null, IntV(5), IntV(7)}
OutcomeCells == {StrV(<<"4">>), StrV(<<"x">>)}
FrequencyCells == {StrV(<<"M","o","n","t","h","l","y">>),
                   StrV(<<"Q","u","a","r","t","e","r","l","y">>),
                   StrV(<<"H","A","L","F","_","Y","E","A","R","L","Y">>)}
RunRows == {<<a, b, c>> : a \in RankCells, b \in OutcomeCells, c \in FrequencyCells}
RunTables == {[columns |-> <<C_Rank, C_Outcome, C_Freq>>, rows |-> rows] :
                 rows \in SeqsUpTo(RunRows, MaxRows)}

\* more sheets for a single run(), of up to MaxRows rows: all-integer sheets
\* (with nulls), sheets with a text and a frequency column, sheets with a
\* column that skip_columns leaves out
C_Name == <<"N","a","m","e">>
C_Q1 == <<"Q","1">>
IntegerRows == {<<a, b>> : a \in {IntV(1), Null}, b \in {IntV(5), IntV(7), Null}}
TextRows == {<<a, b>> : a \in {StrV(<<"a">>), StrV(<<" ">>), Null},
                        b \in {StrV(<<"M","o","n","t","h","l","y">>),
                               StrV(<<"Q","u","a","r","t","e","r","l","y">>)}}
SkippedColumnRows == {<<a, b>> : a \in {IntV(1), Null}, b \in {StrV(<<"a">>), Null}}
TablesOver(columns, rowset) ==
    {[columns |-> columns, rows |-> rows] : rows \in SeqsUpTo(rowset, MaxRows)}
ReportTables ==
    TablesOver(<<C_ID, C_Rank>>, IntegerRows)
        \cup TablesOver(<<C_Name, C_Freq>>, TextRows)
        \cup TablesOver(<<C_Q1, C_ID>>, SkippedColumnRows)
        \cup TablesOver(<<C_Q1, C_Rank>>, IntegerRows)
        \cup TablesOver(<<C_ID, C_Q1 \o <<" ">> \o C_Rank>>, IntegerRows)
        \cup TablesOver(<<C_Name, C_Q1 \o <<" ">> \o C_Outcome>>, TextRows)
        \cup TablesOver(<<C_Outcome, C_Rank>>,
                       {<<a, b>> : a \in {StrV(<<"4">>), StrV(<<"x">>), StrV(<<" ">>), Null},
                                   b \in {IntV(7), Null}})
        \cup TablesOver(<<C_Outcome \o <<" ","%">>, C_Rank \o <<" ">> \o C_Outcome>>,
                       {<<a, b>> : a \in {StrV(<<"x">>), StrV(<<"4">>), Null},
                                   b \in {IntV(7), IntV(5), StrV(<<"x">>), Null}})
        \cup TablesOver(<<C_Rank \o <<" ","%">>,
                         C_Rank \o <<" ","P","E","R","C","E","N","T">>, C_Name>>,
                       {<<a, b, c>> : a \in {IntV(7), Null}, b \in {IntV(7), IntV(5)},
                                      c \in {StrV(<<"a">>)}})
        \cup { [ columns |-> <<C_ID, C_Name, <<"A","m","o","u","n","t">>>>,
                 rows |-> << <<IntV(1), StrV(<<"a">>), IntV(10)>>,
                             <<IntV(2), Null, IntV(20)>>,
                             <<IntV(3), StrV(<<"c">>), IntV(30)>> >> ] }

\* validation_config without and with non_nullable_columns and required_columns
ReportConfigs ==
    {default_config, [default_config EXCEPT !.non_nullable_columns = <<C_ID, C_Name>>,
                                            !.required_columns = <<C_Q1, C_Name>>]}

SheetTables == {T_valid, T_invalid, T_mixed, T_skipped, T_unreadable}
SchedSheetTables == {T_valid, T_mixed}

Schedule(frequency, deadline_day, deadline_months, deadline_month) ==
    [ product |-> <<>>, frequency |-> frequency, deadline_day |-> deadline_day,
      deadline_months |-> deadline_months, deadline_month |-> deadline_month ]

\* deadline_months is the set of months of the list (the empty list when missing)
S_monthly_28 == Schedule("monthly", Some(28), {}, None)
S_monthly_40 == Schedule("monthly", Some(40), {}, None)
S_monthly_no_day == Schedule("monthly", None, {}, None)
S_biannual == Schedule("bi-annual", Some(28), {6, 12}, None)
S_annual == Schedule("annual", Some(31), {}, Some(3))
S_annual_no_month == Schedule("annual", Some(31), {}, None)
S_weekly == Schedule("weekly", Some(5), {}, None)

OrchSchedules == {S_monthly_28, S_monthly_no_day, S_weekly}
AllSchedules == {S_monthly_28, S_monthly_40, S_monthly_no_day, S_biannual,
                 S_annual, S_annual_no_month, S_weekly}

\* the keys of config.product_schedule are distinct products
ProductName(k) == <<"P">> \o IntToStr(k)
WithProducts(schedules) ==
    [k \in 1..Len(schedules) |-> [schedules[k] EXCEPT !.product = ProductName(k)]]

Date(month, day) == [month |-> month, day |-> day]
OrchNows == {Date(6, 25), Date(6, 10)}
AllNows == {Date(6, 20), Date(6, 21), Date(6, 25), Date(1, 21), Date(3, 2), Date(3, 3),
            Date(12, 31)}

\* no parse_excel_file call of its own, no earlier run
InitRest ==
    /\ file_path = <<>>
    /\ file_exists = FALSE
    /\ parse_outcome = Absent
    /\ previous = NoneV

\* the state before run_all_sheets is called
InitCall ==
    /\ validation_config = default_config
    /\ InitRest
    /\ pc = "idle"
    /\ all_errors = <<>>
    /\ all_valid = TRUE
    /\ should_send_periodic = FALSE
    /\ workflow_result = initial_workflow_result
    /\ notifier_calls = <<>>

\* a workbook of up to MaxSheets sheets, few schedules
Init ==
    /\ sheets \in SeqsUpTo(SheetTables, MaxSheets)
    /\ excel_opens \in (IF sheets = <<>> THEN BOOLEAN ELSE {TRUE})
    /\ product_schedule \in {WithProducts(s) : s \in SeqsUpTo(OrchSchedules, MaxOrchSchedules)}
    /\ now \in OrchNows
    /\ InitCall

\* few sheets, up to MaxSchedules schedules of every kind
InitSched ==
    /\ sheets \in SeqsUpTo(SchedSheetTables, MaxSchedSheets)
    /\ excel_opens = TRUE
    /\ product_schedule \in {WithProducts(s) : s \in SeqsUpTo(AllSchedules, MaxSchedules)}
    /\ now \in AllNows
    /\ InitCall

\* one sheet handed to run() by main.py
InitRun ==
    /\ sheets \in {<<table>> : table \in RunTables}
    /\ excel_opens = TRUE
    /\ product_schedule \in {<<>>, WithProducts(<<S_monthly_28>>)}
    /\ now = Date(6, 25)
    /\ validation_config = default_config
    /\ InitRest
    /\ pc = "main"
    /\ all_errors = <<>>
    /\ all_valid = TRUE
    /\ should_send_periodic = FALSE
    /\ workflow_result = initial_workflow_result
    /\ notifier_calls = <<>>

\* one sheet of any of the shapes of ReportTables handed to run()
InitReport ==
    /\ sheets \in {<<table>> : table \in ReportTables}
    /\ excel_opens = TRUE
    /\ product_schedule = <<>>
    /\ now = Date(6, 25)
    /\ validation_config \in ReportConfigs
    /\ InitRest
    /\ pc = "main"
    /\ all_errors = <<>>
    /\ all_valid = TRUE
    /\ should_send_periodic = FALSE
    /\ workflow_result = initial_workflow_result
    /\ notifier_calls = <<>>

\* file paths: a directory part, a base name and an ending
PathStems ==
    { <<"f">>, <<"d","/","f">>, <<"d",".","x","l","s","/","f">>,
      <<"f",".","x","l","s","x">>, <<"d","/">> }
PathEndings ==
    { <<>>, <<".","x","l","s","x">>, <<".","x","l","s">>, <<".","X","L","S","X">>,
      <<".","X","l","s">>, <<".","t","x","t">>, <<".","c","s","v">>,
      <<".","x","l","s","m">> }

\* a parse_excel_file call on any of the paths, on disk or not
InitParse ==
    /\ file_path \in {stem \o ending : stem \in PathStems, ending \in PathEndings}
    /\ file_exists \in BOOLEAN
    /\ parse_outcome = Absent
    /\ previous = NoneV
    /\ sheets = <<>>
    /\ excel_opens = TRUE
    /\ product_schedule = <<>>
    /\ now = Date(6, 25)
    /\ validation_config = default_config
    /\ pc = "parse"
    /\ all_errors = <<>>
    /\ all_valid = TRUE
    /\ should_send_periodic = FALSE
    /\ workflow_result = initial_workflow_result
    /\ notifier_calls = <<>>

\* two calls in a row: few sheets, at most MaxOrchSchedules schedules
InitTwice ==
    /\ sheets \in SeqsUpTo(SheetTables, MaxSchedSheets)
    /\ excel_opens \in (IF sheets = <<>> THEN BOOLEAN ELSE {TRUE})
    /\ product_schedule \in {WithProducts(s) : s \in SeqsUpTo(OrchSchedules, MaxOrchSchedules)}
    /\ now \in OrchNows
    /\ InitCall

\* one schedule of each frequency with deadline_day 10 or 28 (months 3 and
\* 9, month 3), on days of February, March and April
InitDeadline ==
    /\ sheets = <<T_valid>>
    /\ excel_opens = TRUE
    /\ product_schedule \in
          {WithProducts(<<Schedule(frequency, Some(deadline_day), {3, 9}, Some(3))>>) :
              frequency \in {"monthly", "bi-annual", "annual"}, deadline_day \in {10, 28}}
    /\ now \in {Date(month, day) : month \in {2, 3, 4},
                                   day \in {1, 2, 3, 10, 11, 20, 21, 28, 29}}
    /\ InitCall

Spec == Init /\ [][Next]_vars

SpecReport == InitReport /\ [][NextRun]_vars

SpecRun == InitRun /\ [][NextRun]_vars

SpecSched == InitSched /\ [][Next]_vars

SpecParse == InitParse /\ [][NextParse]_vars

SpecTwice == InitTwice /\ [][NextTwice]_vars

SpecDeadline == InitDeadline /\ [][Next]_vars

(***************************************************************************)
(* Properties of run_all_sheets.                                           *)
(***************************************************************************)
Results == workflow_result.all_sheets_results
Aggregate == workflow_result.aggregated_result
Aggregated == pc \in {"end", "done"} /\ workflow_result.workflow_status # "failed"
SheetValid(i) == Results[i].validation_result.is_valid
LastCall == notifier_calls[Len(notifier_calls)]

\* what the run did about its notification
RunOutcome ==
    [ method |-> LastCall.method,
      notification_type |-> workflow_result.notification_type,
      workflow_status |-> workflow_result.workflow_status,
      message |-> Aggregate.message ]

\* C1: between the start and the return of one run_all_sheets call, the calls
\* made on the notifier (send_missing_data_notification and
\* send_completion_notification, those of the per-sheet run() included)
\* never number more than one.
C1_AtMostOneNotification == Len(notifier_calls) <= 1

\* C2: the decision has three distinguishable outcomes, first match wins:
\* is_valid false gives the issues outcome, otherwise periodic_trigger true
\* gives a periodic outcome, otherwise the clean outcome; the periodic
\* outcome is neither the issues outcome nor the clean one.
C2_ThreeOutcomes ==
    Aggregated =>
        /\ ~ Aggregate.is_valid => RunOutcome = decision(FALSE, FALSE)
        /\ (Aggregate.is_valid /\ ~ Aggregate.periodic_trigger)
              => RunOutcome = decision(TRUE, FALSE)
        /\ (Aggregate.is_valid /\ Aggregate.periodic_trigger)
              => RunOutcome \notin {decision(FALSE, FALSE), decision(TRUE, FALSE)}

\* C3: when at least one sheet of the run is invalid, the run takes the
\* missing-data notification path with status completed_with_issues, whatever
\* the other sheets and whatever periodic_trigger.
C3_InvalidSheetGivesIssues ==
    (Aggregated /\ \E i \in 1..Len(Results) : ~ SheetValid(i))
        => /\ workflow_result.workflow_status = "completed_with_issues"
           /\ workflow_result.notification_type = "missing_data_aggregated"
           /\ LastCall.caller = "run_all_sheets"
           /\ LastCall.method = "send_missing_data_notification"

\* the scenario of the specification: first sheet invalid, second valid, no
\* periodic trigger
C3_Witness ==
    /\ Aggregated
    /\ Len(Results) = 2
    /\ ~ SheetValid(1)
    /\ SheetValid(2)
    /\ ~ Aggregate.periodic_trigger

\* C4: the aggregate is_valid is the AND of the per-sheet is_valid flags (true
\* for a workbook without sheets); all_valid is that AND after every sheet.
C4_AggregateValidIsAnd ==
    /\ pc = "sheets" => (all_valid <=> \A i \in 1..Len(Results) : SheetValid(i))
    /\ Aggregated => (Aggregate.is_valid <=> \A i \in 1..Len(Results) : SheetValid(i))

C4_Witness ==
    /\ Aggregated
    /\ Len(Results) = 2
    /\ ~ SheetValid(1)
    /\ SheetValid(2)
    /\ ~ Aggregate.is_valid

HasRowIndex(e) == "row_index" \in DOMAIN e
HasVerdicts(i) == "product_issue_results" \in DOMAIN Results[i].validation_result
VerdictsOf(i) == Results[i].validation_result.product_issue_results

\* the aggregate error list holds the verdict of row k of sheet i
Listed(i, k) ==
    \E j \in 1..Len(Aggregate.errors) :
        /\ Aggregate.errors[j].sheet = SheetName(i)
        /\ HasRowIndex(Aggregate.errors[j])
        /\ Aggregate.errors[j].row_index = k

\* C5: the aggregate error list holds every non-valid row verdict (missing,
\* invalid or skipped) of every sheet, tagged with its sheet; so an aggregate
\* that is not valid has a non-empty error list.
C5_AllNonValidRowsListed ==
    Aggregated =>
        /\ \A i \in 1..Len(Results) :
              HasVerdicts(i) =>
                  \A k \in 1..Len(VerdictsOf(i)) :
                      VerdictsOf(i)[k].status # "valid"
                          => Listed(i, VerdictsOf(i)[k].row_index)
        /\ ~ Aggregate.is_valid => Aggregate.errors # <<>>

SheetPos(name) == CHOOSE i \in 1..Len(sheets) : SheetName(i) = name

InOrder(e1, e2) ==
    \/ SheetPos(e1.sheet) < SheetPos(e2.sheet)
    \/ /\ e1.sheet = e2.sheet
       /\ HasRowIndex(e1) /\ HasRowIndex(e2)
       /\ e1.row_index < e2.row_index

\* C6: the entries of the aggregate error list are ordered by sheet processing
\* order, and by row index within a sheet.
C6_ErrorsOrdered ==
    /\ \A a, b \in 1..Len(all_errors) : a < b => InOrder(all_errors[a], all_errors[b])
    /\ Aggregated => Aggregate.errors = all_errors

C6_Witness ==
    /\ Aggregated
    /\ Len(Aggregate.errors) >= 3
    /\ \E a, b, c \in 1..Len(Aggregate.errors) :
          /\ a < b /\ b < c
          /\ Aggregate.errors[a].sheet = Aggregate.errors[b].sheet
          /\ Aggregate.errors[b].sheet # Aggregate.errors[c].sheet

\* the rule of the specification for one schedule
DueByRule(schedule) ==
    \/ /\ schedule.frequency = "monthly"
       /\ schedule.deadline_day # <<>>
       /\ now.day >= schedule.deadline_day[1] - 7
    \/ /\ schedule.frequency = "bi-annual"
       /\ now.month \in schedule.deadline_months
       /\ schedule.deadline_day # <<>>
       /\ now.day >= schedule.deadline_day[1] - 7
    \/ /\ schedule.frequency = "annual"
       /\ schedule.deadline_month = <<now.month>>
       /\ schedule.deadline_day # <<>>
       /\ now.day >= schedule.deadline_day[1] - 28

\* C7: periodic_trigger is the OR over the configured schedules of the
\* monthly, bi-annual and annual rules (windows of 7, 7 and 28 days before
\* deadline_day); false without schedules; a monthly schedule with
\* deadline_day 28 is due on day 25, one with deadline_day 40 never.
C7_PeriodicTriggerIsOr ==
    Aggregated =>
        /\ Aggregate.periodic_trigger
              <=> \E k \in 1..Len(product_schedule) : DueByRule(product_schedule[k])
        /\ product_schedule = <<>> => ~ Aggregate.periodic_trigger
        /\ (now.day = 25 /\ \E k \in 1..Len(product_schedule) :
                               /\ product_schedule[k].frequency = "monthly"
                               /\ product_schedule[k].deadline_day = <<28>>)
              => Aggregate.periodic_trigger
        /\ (\A k \in 1..Len(product_schedule) :
                /\ product_schedule[k].frequency = "monthly"
                /\ product_schedule[k].deadline_day = <<40>>)
              => ~ Aggregate.periodic_trigger

\* two schedules, one due and one not
C7_Witness ==
    /\ Aggregated
    /\ Aggregate.periodic_trigger
    /\ Len(product_schedule) = 2
    /\ ~ DueByRule(product_schedule[1])
    /\ DueByRule(product_schedule[2])
    /\ product_schedule[2].frequency = "bi-annual"

Malformed(schedule) ==
    \/ schedule.frequency \notin {"monthly", "bi-annual", "annual"}
    \/ schedule.deadline_day = <<>>
    \/ schedule.frequency = "bi-annual" /\ schedule.deadline_months = {}
    \/ schedule.frequency = "annual" /\ schedule.deadline_month = <<>>

\* C8: a schedule with an unknown frequency tag or a missing deadline
\* parameter counts as not due and never fails the run: the run ends with a
\* status other than failed and periodic_trigger comes from the other
\* schedules.
C8_MalformedScheduleNeverFails ==
    (pc = "done" /\ excel_opens
        /\ \E k \in 1..Len(product_schedule) : Malformed(product_schedule[k]))
    => /\ workflow_result.workflow_status # "failed"
       /\ Aggregate.periodic_trigger
             <=> \E k \in 1..Len(product_schedule) :
                    ~ Malformed(product_schedule[k]) /\ DueByRule(product_schedule[k])

(***************************************************************************)
(* Properties of the row verdicts, on the report of a single run().        *)
(***************************************************************************)
RunDone == pc = "main_done"
RunTable == sheets[1]
RunVerdicts == workflow_result.validation_result.product_issue_results
ColumnsValidated == workflow_result.validation_result.validation_metadata.columns_validated

\* the cell of row k in the column named col
RunCell(k, col) ==
    RunTable.rows[k][CHOOSE c \in 1..Len(RunTable.columns) : RunTable.columns[c] = col]

\* null, or text that is empty or blank
CellMissing(cell) ==
    \/ cell.t = "null"
    \/ cell.t = "str" /\ \A i \in 1..Len(cell.s) : cell.s[i] \in {" ", "\t", "\n"}

RowHasMissing(k) ==
    \E c \in 1..Len(ColumnsValidated) : CellMissing(RunCell(k, ColumnsValidated[c]))

\* the row holds a rank over the threshold or an outcome number that is no number
RowHasViolation(k) ==
    \/ /\ RunCell(k, C_Rank).t = "int"
       /\ RunCell(k, C_Rank).n > validation_config.rank_threshold
    \/ /\ RunCell(k, C_Outcome).t = "str"
       /\ ~ CellMissing(RunCell(k, C_Outcome))
       /\ \E i \in 1..Len(RunCell(k, C_Outcome).s) : RunCell(k, C_Outcome).s[i]
                \notin {"0", "1", "2", "3", "4", "5", "6", "7", "8", "9"}

\* C9: for a row that is not skipped: a missing validated column gives status
\* missing even when invalid-value findings exist, and those findings stay in
\* invalid_values and in details; otherwise a finding gives status invalid;
\* otherwise the status is valid.
C9_VerdictPrecedence ==
    RunDone =>
        \A k \in 1..Len(RunVerdicts) :
            RunVerdicts[k].status # "skipped" =>
                /\ RowHasViolation(k) <=> RunVerdicts[k].invalid_values # <<>>
                /\ \A f \in 1..Len(RunVerdicts[k].invalid_values) :
                      Contains(RunVerdicts[k].invalid_values[f], RunVerdicts[k].details)
                /\ RunVerdicts[k].status =
                      IF RowHasMissing(k) THEN "missing"
                      ELSE IF RunVerdicts[k].invalid_values # <<>> THEN "invalid"
                      ELSE "valid"

\* a row with a missing rank and an outcome number that is no number
C9_Witness ==
    /\ RunDone
    /\ \E k \in 1..Len(RunVerdicts) :
          /\ RunCell(k, C_Rank) = Null
          /\ RunCell(k, C_Outcome).s = <<"x">>
          /\ RunVerdicts[k].status = "missing"
          /\ Len(RunVerdicts[k].invalid_values) = 1

\* C10: a row whose frequency value, lower-cased, is a frequency-skip keyword
\* has status skipped, the detail "Skipped due to frequency: <value>" and
\* empty missing_columns and invalid_values, whatever its other columns hold.
C10_FrequencySkip ==
    RunDone =>
        \A k \in 1..Len(RunTable.rows) :
            Lower(RunCell(k, C_Freq).s) \in frequency_skip_keywords =>
                /\ RunVerdicts[k].status = "skipped"
                /\ RunVerdicts[k].details =
                      <<"Skipped due to frequency: ">> \o RunCell(k, C_Freq).s
                /\ RunVerdicts[k].missing_columns = <<>>
                /\ RunVerdicts[k].invalid_values = <<>>

\* a skipped row whose other columns are missing and not a number
C10_Witness ==
    /\ RunDone
    /\ \E k \in 1..Len(RunTable.rows) :
          /\ RunCell(k, C_Freq).s = <<"Q","u","a","r","t","e","r","l","y">>
          /\ RunCell(k, C_Rank) = Null
          /\ RunCell(k, C_Outcome).s = <<"x">>
          /\ RunVerdicts[k].status = "skipped"

(***************************************************************************)
(* Properties of the table report.                                         *)
(***************************************************************************)
RunReport == workflow_result.validation_result

\* the sheet cell holds a number
CellNumeric(cell) == cell.t \in {"int", "float"}

\* the verdict of row k has a rank finding for the column
RankFinding(k, col) ==
    \E f \in 1..Len(RunVerdicts[k].invalid_values) :
        /\ Len(RunVerdicts[k].invalid_values[f]) > Len(col)
        /\ SubSeq(RunVerdicts[k].invalid_values[f], 1, Len(col)) = col
        /\ Contains(<<" exceeds rank threshold (">>, RunVerdicts[k].invalid_values[f])

\* C11: in a row that is not skipped, a rank column holding a number v has an
\* invalid-value finding iff v > rank_threshold (none for v = rank_threshold).
C11_RankThreshold ==
    RunDone =>
        \A k \in 1..Len(RunTable.rows) :
            RunVerdicts[k].status # "skipped" =>
                \A c \in 1..Len(RunTable.columns) :
                    ( /\ Contains(<<"r","a","n","k">>, Lower(RunTable.columns[c]))
                      /\ CellNumeric(RunTable.rows[k][c]) )
                    => ( RankFinding(k, RunTable.columns[c])
                            <=> RunTable.rows[k][c].n > validation_config.rank_threshold )

\* the frequency cell of row k lower-cases to a frequency-skip keyword
RowSkippedByFrequency(k) ==
    \E c \in 1..Len(RunTable.columns) :
        /\ Contains(<<"f","r","e","q","u","e","n","c","y">>, Lower(RunTable.columns[c]))
        /\ RunTable.rows[k][c].t = "str"
        /\ Lower(RunTable.rows[k][c].s) \in frequency_skip_keywords

RowHasNull(k) ==
    \E c \in 1..Len(ColumnsValidated) : RunCell(k, ColumnsValidated[c]).t = "null"

\* a validated rank column over the threshold, or a validated outcome-number
\* column whose text is no number
RowViolatesRule(k) ==
    \E c \in 1..Len(ColumnsValidated) :
        \/ /\ Contains(<<"r","a","n","k">>, Lower(ColumnsValidated[c]))
           /\ CellNumeric(RunCell(k, ColumnsValidated[c]))
           /\ RunCell(k, ColumnsValidated[c]).n > validation_config.rank_threshold
        \/ /\ Contains(<<"o","u","t","c","o","m","e"," ","n","u","m","b","e","r">>,
                       Lower(ColumnsValidated[c]))
           /\ RunCell(k, ColumnsValidated[c]).t = "str"
           /\ ~ ParsesAsFloat(RunCell(k, ColumnsValidated[c]).s)

\* C12 as stated: a row with no null value in a validated column and no
\* rank-threshold or outcome-number violation has status valid.
C12_NoNullNoViolationValid ==
    RunDone =>
        \A k \in 1..Len(RunTable.rows) :
            (~ RowHasNull(k) /\ ~ RowViolatesRule(k)) => RunVerdicts[k].status = "valid"

\* C12 amended: a row that is not skipped for its frequency, with no missing
\* value (null, or empty or blank text) in a validated column and no
\* rank-threshold or outcome-number violation, has status valid.
C12_NotSkippedNoMissingValid ==
    RunDone =>
        \A k \in 1..Len(RunTable.rows) :
            (~ RowSkippedByFrequency(k) /\ ~ RowHasMissing(k) /\ ~ RowViolatesRule(k))
                => RunVerdicts[k].status = "valid"

\* a valid row at the rank threshold, next to a row with a null
C12_Witness ==
    /\ RunDone
    /\ Len(RunTable.rows) = 2
    /\ RunTable.columns = <<C_ID, C_Rank>>
    /\ RunTable.rows[1] = <<IntV(1), IntV(5)>>
    /\ RunTable.rows[2][1] = Null
    /\ RunVerdicts[1].status = "valid"

(***************************************************************************)
(* Failures: a sheet that cannot be loaded, and a run that fails            *)
(***************************************************************************)
LoopOver == pc \in {"aggregate", "end", "done"} /\ excel_opens
SheetError(i) ==
    [type |-> "validation_error", message |-> sheets[i].unreadable, sheet |-> SheetName(i)]

\* C13: a sheet that cannot be loaded gives a report with is_valid false and
\* exactly one synthetic error that describes the failure; the run goes on
\* with the other sheets (every sheet gets its result, a loaded sheet one
\* verdict per row), and the error is in the aggregate error list, tagged
\* with its sheet.
C13_UnreadableSheetContinues ==
    /\ \A i \in 1..Len(Results) :
          IF IsReadable(sheets[i])
          THEN HasVerdicts(i) /\ Len(VerdictsOf(i)) = Len(sheets[i].rows)
          ELSE /\ ~ SheetValid(i)
               /\ Results[i].validation_result.errors = << SheetError(i) >>
               /\ ~ HasVerdicts(i)
    /\ LoopOver => Len(Results) = Len(sheets)
    /\ Aggregated =>
          \A i \in 1..Len(sheets) :
              ~ IsReadable(sheets[i]) =>
                  /\ ~ Aggregate.is_valid
                  /\ Len(SelectSeq(Aggregate.errors, LAMBDA e : e = SheetError(i))) = 1

C13_Witness ==
    /\ Aggregated
    /\ Len(sheets) = 2
    /\ sheets[1] = T_unreadable
    /\ sheets[2] = T_mixed
    /\ Len(Aggregate.errors) > 1

Returned == pc = "done"
Failed == workflow_result.workflow_status = "failed"

\* C14: on return workflow_status is failed exactly when an error was
\* recorded; a failed run has notification_sent false, no
\* completed_success or completed_with_issues status and no notification
\* type, and the per-sheet results gathered before the fault are still in
\* all_sheets_results; a run without fault ends in one of the two completed
\* statuses.
C14_FailedRunTagged ==
    Returned =>
        /\ Failed <=> workflow_result.error # Absent
        /\ Failed =>
              /\ workflow_result.notification_sent = FALSE
              /\ workflow_result.notification_type = Absent
              /\ Aggregate = NoneV
              /\ Len(Results) = (IF excel_opens THEN Len(sheets) ELSE 0)
              /\ \A i \in 1..Len(Results) :
                    /\ Results[i].sheet_name = SheetName(i)
                    /\ IsReadable(sheets[i]) => Len(VerdictsOf(i)) = Len(sheets[i].rows)
        /\ ~ Failed =>
              workflow_result.workflow_status \in {"completed_success", "completed_with_issues"}

C14_Witness ==
    /\ Returned
    /\ Failed
    /\ Len(Results) = 2
    /\ ~ SheetValid(1)

(***************************************************************************)
(* The summary and the missing-data part of the table report                *)
(***************************************************************************)
RunSummary == RunReport.summary
RowsWithStatus(statuses) == {k \in 1..Len(RunVerdicts) : RunVerdicts[k].status \in statuses}

C15_EmptyTable == RunDone /\ RunTable.rows = <<>> /\ RunSummary.validation_rate.num = 0

RunMissing == RunReport.missing_data_details
CellNull(k, c) == RunTable.rows[k][c].t = "null"
ColumnHasNull(c) == \E k \in 1..Len(RunTable.rows) : CellNull(k, c)
SomeCellNull == \E c \in 1..Len(RunTable.columns) : ColumnHasNull(c)
IsKey(col) ==
    \E j \in 1..Len(RunMissing.missing_by_column) :
        RunMissing.missing_by_column[j].column = col
NonNullable(col) == InSeq(col, validation_config.non_nullable_columns)
IsValidatedColumn(col) == InSeq(col, ColumnsValidated)
HalfNullRow ==
    \E k \in 1..Len(RunTable.rows) :
        2 * Cardinality({c \in 1..Len(RunTable.columns) : CellNull(k, c)})
            > Len(RunTable.columns)

\* C16 as stated: for a table in which some cells are null the report has
\* is_valid false and has_missing_data true, every column that holds a null
\* is a key of missing_by_column, and total_missing_values is over zero.
C16_NullCellsReported ==
    (RunDone /\ SomeCellNull) =>
        /\ ~ RunReport.is_valid
        /\ RunMissing.has_missing_data
        /\ \A c \in 1..Len(RunTable.columns) : ColumnHasNull(c) => IsKey(RunTable.columns[c])
        /\ RunMissing.total_missing_values > 0

\* C16 amended: for a table in which some cells are null,
\* total_missing_values is over zero; is_valid is false when a null is in a
\* validated column; the keys of missing_by_column are the columns listed
\* in non_nullable_columns that hold a null; has_missing_data is true when
\* there is such a column or a row with more than half of its cells null,
\* and false otherwise.
C16_NonNullableColumnsReported ==
    (RunDone /\ SomeCellNull) =>
        /\ RunMissing.total_missing_values > 0
        /\ (\E c \in 1..Len(RunTable.columns) :
               ColumnHasNull(c) /\ IsValidatedColumn(RunTable.columns[c])) => ~ RunReport.is_valid
        /\ \A c \in 1..Len(RunTable.columns) :
               IsKey(RunTable.columns[c]) <=>
                   (ColumnHasNull(c) /\ NonNullable(RunTable.columns[c]))
        /\ RunMissing.has_missing_data <=>
               \/ \E c \in 1..Len(RunTable.columns) :
                      ColumnHasNull(c) /\ NonNullable(RunTable.columns[c])
               \/ HalfNullRow

\* a null in the non-nullable column ID and one in Rank, which is not listed
C16_Witness ==
    /\ RunDone
    /\ RunTable.columns = <<C_ID, C_Rank>>
    /\ Len(RunTable.rows) = 2
    /\ CellNull(1, 1) /\ ~ CellNull(1, 2)
    /\ CellNull(2, 2) /\ ~ CellNull(2, 1)
    /\ IsKey(C_ID) /\ ~ IsKey(C_Rank)
    /\ RunMissing.has_missing_data
    /\ RunMissing.total_missing_values = 2

NoRowViolatesRule == \A k \in 1..Len(RunTable.rows) : ~ RowViolatesRule(k)
CleanReport ==
    /\ RunReport.is_valid
    /\ RunReport.errors = <<>>
    /\ ~ RunMissing.has_missing_data

\* C17 as stated: for a table in which no cell is null and no rule is
\* violated the report has is_valid true, an empty errors list and
\* has_missing_data false.
C17_NoNullNoViolationClean ==
    (RunDone /\ ~ SomeCellNull /\ NoRowViolatesRule) => CleanReport

\* C17 amended: for a table in which no cell is null, no validated text cell
\* is empty or blank, no row is skipped for its frequency and no rule is
\* violated, the report has is_valid true, an empty errors list and
\* has_missing_data false.
C17_NothingMissingNoSkipClean ==
    (/\ RunDone
     /\ ~ SomeCellNull
     /\ NoRowViolatesRule
     /\ \A k \in 1..Len(RunTable.rows) : ~ RowHasMissing(k) /\ ~ RowSkippedByFrequency(k))
        => CleanReport

\* two rows of text without blanks, none skipped
C17_Witness ==
    /\ RunDone
    /\ RunTable.columns = <<C_Name, C_Freq>>
    /\ Len(RunTable.rows) = 2
    /\ ~ SomeCellNull
    /\ \A k \in 1..2 : ~ RowHasMissing(k) /\ ~ RowSkippedByFrequency(k)
    /\ CleanReport

(***************************************************************************)
(* parse_excel_file                                                         *)
(***************************************************************************)
Parsed == pc = "parsed"
Supported == Lower(suffix(file_path)) \in supported_formats

\* C18: parse_excel_file raises ValueError for every path whose extension
\* is not .xlsx or .xls, also when the path does not exist on disk, and
\* FileNotFoundError for a path with a supported extension that does not
\* exist.
C18_ParseErrors ==
    Parsed =>
        /\ ~ Supported => parse_outcome = "ValueError"
        /\ (Supported /\ ~ file_exists) => parse_outcome = "FileNotFoundError"

\* what the code does: the existence test comes first
C18_ExistenceFirst ==
    Parsed =>
        /\ ~ file_exists => parse_outcome = "FileNotFoundError"
        /\ (file_exists /\ ~ Supported) => parse_outcome = "ValueError"
        /\ (file_exists /\ Supported) => parse_outcome \in {"DataFrame", "read_excel error"}

(***************************************************************************)
(* The notifier result                                                      *)
(***************************************************************************)
OwnCalls == SelectSeq(notifier_calls, LAMBDA c : c.caller = "run_all_sheets")
SheetCalls(i) ==
    SelectSeq(notifier_calls, LAMBDA c : c.caller = "run" /\ c.sheet = SheetName(i))

\* C19: run_all_sheets makes exactly one notifier call of its own, whatever
\* the call returns, and notification_sent of the returned result is the
\* value that call returned; workflow_status is completed_with_issues or
\* completed_success as decided from is_valid and periodic_trigger alone,
\* also when the call returned false.  The same holds for each sheet: one
\* call by run(), whose result is the sheet's notification_sent.
C19_NotifierResultRecorded ==
    (Returned /\ ~ Failed) =>
        /\ Len(OwnCalls) = 1
        /\ LastCall = OwnCalls[1]
        /\ workflow_result.notification_sent = OwnCalls[1].sent
        /\ workflow_result.workflow_status =
              decision(Aggregate.is_valid, Aggregate.periodic_trigger).workflow_status
        /\ workflow_result.workflow_status \in {"completed_with_issues", "completed_success"}
        /\ Len(notifier_calls) = Len(sheets) + 1
        /\ \A i \in 1..Len(sheets) :
              /\ Len(SheetCalls(i)) = 1
              /\ Results[i].notification_sent = SheetCalls(i)[1].sent

\* the notifier returned false on a run without issues
C19_Witness ==
    /\ Returned
    /\ Len(sheets) = 1
    /\ workflow_result.workflow_status = "completed_success"
    /\ workflow_result.notification_sent = FALSE
    /\ OwnCalls = << [method |-> "send_completion_notification", caller |-> "run_all_sheets",
                      sheet |-> <<>>, sent |-> FALSE] >>

(***************************************************************************)
(* Two runs over the same inputs                                            *)
(***************************************************************************)
SecondReturned == pc = "done" /\ previous # NoneV

\* what a result says about the data: everything but the notifier results
Findings(result) ==
    [ reports |-> [i \in 1..Len(result.all_sheets_results) |->
                      result.all_sheets_results[i].validation_result],
      sheet_statuses |-> [i \in 1..Len(result.all_sheets_results) |->
                             << result.all_sheets_results[i].sheet_name,
                                result.all_sheets_results[i].workflow_status,
                                result.all_sheets_results[i].notification_type >>],
      aggregated_result |-> result.aggregated_result,
      workflow_status |-> result.workflow_status,
      notification_type |-> result.notification_type,
      error |-> result.error ]

\* C20: a second run over the same tables, rule set, schedules and date
\* gives the same row verdicts, the same aggregate error list in the same
\* order, the same is_valid and periodic_trigger and the same decision as
\* the first; nothing the first run left behind shows in the second.
C20_SecondRunSame == SecondReturned => Findings(workflow_result) = Findings(previous)

\* a second run with errors and a trigger, whose notifier result differs
C20_Witness ==
    /\ SecondReturned
    /\ ~ Failed
    /\ Len(Aggregate.errors) > 0
    /\ Aggregate.periodic_trigger
    /\ workflow_result.notification_sent # previous.notification_sent
    /\ Len(notifier_calls) = 2 * (Len(sheets) + 1)

(***************************************************************************)
(* Columns that are validated and columns that are not                      *)
(***************************************************************************)
\* the column name holds an entry of skip_columns, whatever the case
NameSkipped(col) ==
    \E j \in 1..Len(validation_config.skip_columns) :
        Contains(Lower(validation_config.skip_columns[j]), Lower(col))

\* the cells of the columns that are not validated, nulls filled in
WithoutSkippedNulls(table) ==
    [table EXCEPT !.rows =
        [k \in 1..Len(table.rows) |->
            [c \in 1..Len(table.columns) |->
                IF NameSkipped(table.columns[c]) /\ table.rows[k][c].t = "null"
                THEN IntV(1)
                ELSE table.rows[k][c]]]]

\* C21, the column sets: the validated columns are the table's columns whose
\* name holds no entry of skip_columns as a case-insensitive substring, in
\* table column order; all other columns are listed in skipped_columns; no
\* verdict names a skipped column as missing or in a finding.
C21_ValidatedColumnSet ==
    RunDone =>
        /\ ColumnsValidated = SelectSeq(RunTable.columns, LAMBDA col : ~ NameSkipped(col))
        /\ RunSummary.skipped_columns = SelectSeq(RunTable.columns, NameSkipped)
        /\ RunSummary.validation_columns = Len(ColumnsValidated)
        /\ \A k \in 1..Len(RunVerdicts) :
              /\ \A m \in 1..Len(RunVerdicts[k].missing_columns) :
                    ~ NameSkipped(RunVerdicts[k].missing_columns[m])
              /\ Len(RunVerdicts[k].missing_columns) + Len(RunVerdicts[k].invalid_values)
                    <= Len(ColumnsValidated)

\* C21: the validated columns are the table's columns whose name holds no
\* entry of skip_columns (case-insensitive substring), in table column
\* order, every other column is in skipped_columns, and a null in a skipped
\* column never affects a row verdict: the verdicts are those of the same
\* table with the nulls of its skipped columns filled in.
C21_SkippedColumnsNeverAffect ==
    RunDone =>
        /\ ColumnsValidated = SelectSeq(RunTable.columns, LAMBDA col : ~ NameSkipped(col))
        /\ RunSummary.skipped_columns = SelectSeq(RunTable.columns, NameSkipped)
        /\ RunVerdicts =
              validate_spreadsheet(WithoutSkippedNulls(RunTable), validation_config)
                  .product_issue_results

(***************************************************************************)
(* Missing values and typed checks of a row                                 *)
(***************************************************************************)
\* the findings of row k that speak of the column
FindingsFor(k, col) ==
    {f \in 1..Len(RunVerdicts[k].invalid_values) :
        /\ Len(RunVerdicts[k].invalid_values[f]) > Len(col)
        /\ SubSeq(RunVerdicts[k].invalid_values[f], 1, Len(col)) = col
        /\ RunVerdicts[k].invalid_values[f][Len(col) + 1] \in {": ", ": '"}}

NotSkipped(k) == RunVerdicts[k].status # "skipped"

\* C22: in a row that is not skipped, missing_columns lists exactly the
\* validated columns whose value is null or a text that is empty or blank,
\* in table column order; the row is missing exactly when there is one; and
\* a missing column has no rank or outcome-number finding.
C22_MissingColumns ==
    RunDone =>
        \A k \in 1..Len(RunVerdicts) :
            NotSkipped(k) =>
                /\ RunVerdicts[k].missing_columns =
                      SelectSeq(ColumnsValidated, LAMBDA col : CellMissing(RunCell(k, col)))
                /\ RunVerdicts[k].status = "missing" <=> RunVerdicts[k].missing_columns # <<>>
                /\ \A m \in 1..Len(RunVerdicts[k].missing_columns) :
                      FindingsFor(k, RunVerdicts[k].missing_columns[m]) = {}

\* the table of three rows with columns ID, Name, Amount and a null Name in row 2
C22_Witness ==
    /\ RunDone
    /\ RunTable.columns = <<C_ID, C_Name, <<"A","m","o","u","n","t">>>>
    /\ RunVerdicts[2].status = "missing"
    /\ RunVerdicts[2].missing_columns = <<C_Name>>
    /\ RunVerdicts[1].status = "valid" /\ RunVerdicts[3].status = "valid"
    /\ RunSummary.error_rows = 1
    /\ RunSummary.validation_rate = [num |-> 200, den |-> 3]

\* a blank outcome number, missing and not checked as a number
C22_BlankOutcomeNumber ==
    /\ RunDone
    /\ RunTable.columns = <<C_Outcome, C_Rank>>
    /\ Len(RunTable.rows) = 1
    /\ RunTable.rows[1][1] = StrV(<<" ">>)
    /\ RunVerdicts[1].missing_columns = <<C_Outcome>>
    /\ Len(RunVerdicts[1].invalid_values) = 1

IsOutcomeNumber(col) == Contains(W_outcome_number, Lower(col))
IsPercentage(col) == Contains(<<"%">>, col) \/ Contains(W_percent, Lower(col))
IsRank(col) == Contains(W_rank, Lower(col))

\* float(str(value)) gives a number
CellParses(cell) == CellNumeric(cell) \/ (cell.t = "str" /\ ParsesAsFloat(cell.s))

\* row k has the finding "<column>: '<value>' is not a valid number"
NotANumberFinding(k, col) ==
    \E f \in FindingsFor(k, col) :
        RunVerdicts[k].invalid_values[f] =
            col \o <<": '">> \o RunCell(k, col).s \o <<"' is not a valid number">>

\* C23 as stated: in a row that is not skipped, for a validated column whose
\* name holds "outcome number" and whose value is not null, a value that
\* does not parse as a number has the finding "<column>: '<value>' is not a
\* valid number", one that parses has no finding, and nothing is raised.
C23_OutcomeNumberChecked ==
    RunDone =>
        /\ "product_issue_results" \in DOMAIN RunReport
        /\ \A k \in 1..Len(RunVerdicts), c \in 1..Len(ColumnsValidated) :
              (/\ NotSkipped(k)
               /\ IsOutcomeNumber(ColumnsValidated[c])
               /\ RunCell(k, ColumnsValidated[c]).t # "null")
                  => IF CellParses(RunCell(k, ColumnsValidated[c]))
                     THEN FindingsFor(k, ColumnsValidated[c]) = {}
                     ELSE NotANumberFinding(k, ColumnsValidated[c])

\* C23 amended: in a row that is not skipped, for a validated column whose
\* name holds "outcome number", that is no percentage column and whose value
\* is not missing (not null, not blank text): a value that does not parse as
\* a number has the finding "<column>: '<value>' is not a valid number" and
\* nothing is raised; a value that parses has no such finding, and no finding
\* at all unless the column is a rank column too and the value a number.
C23_NonMissingOutcomeNumberChecked ==
    RunDone =>
        /\ "product_issue_results" \in DOMAIN RunReport
        /\ \A k \in 1..Len(RunVerdicts), c \in 1..Len(ColumnsValidated) :
              (/\ NotSkipped(k)
               /\ IsOutcomeNumber(ColumnsValidated[c])
               /\ ~ IsPercentage(ColumnsValidated[c])
               /\ ~ CellMissing(RunCell(k, ColumnsValidated[c])))
                  => IF CellParses(RunCell(k, ColumnsValidated[c]))
                     THEN /\ ~ NotANumberFinding(k, ColumnsValidated[c])
                          /\ \/ FindingsFor(k, ColumnsValidated[c]) = {}
                             \/ /\ IsRank(ColumnsValidated[c])
                                /\ CellNumeric(RunCell(k, ColumnsValidated[c]))
                     ELSE NotANumberFinding(k, ColumnsValidated[c])

\* an outcome number 'x' next to a rank over the threshold
C23_Witness ==
    /\ RunDone
    /\ RunTable.columns = <<C_Outcome, C_Rank>>
    /\ Len(RunTable.rows) = 2
    /\ RunTable.rows[1] = <<StrV(<<"x">>), IntV(7)>>
    /\ RunTable.rows[2][1] = StrV(<<"4">>)
    /\ NotANumberFinding(1, C_Outcome)
    /\ Len(RunVerdicts[1].invalid_values) = 2
    /\ FindingsFor(2, C_Outcome) = {}

(***************************************************************************)
(* Row positions                                                            *)
(***************************************************************************)
\* C24: the report has one verdict per table row, in table order (verdict k
\* is the one of row k: it carries the row's frequency value and is skipped
\* exactly when that value is a skip keyword), and the row_index of the
\* k-th verdict is k, for skipped rows and rows after skipped rows too.
C24_RowIndexIsPosition ==
    RunDone =>
        /\ Len(RunVerdicts) = Len(RunTable.rows)
        /\ \A k \in 1..Len(RunVerdicts) :
              /\ RunVerdicts[k].row_index = k
              /\ RunVerdicts[k].frequency_info = RunCell(k, C_Freq)
              /\ RunVerdicts[k].status = "skipped" <=>
                    Lower(RunCell(k, C_Freq).s) \in frequency_skip_keywords

\* a validated row after a skipped one
C24_Witness ==
    /\ RunDone
    /\ Len(RunVerdicts) = 2
    /\ RunVerdicts[1].status = "skipped"
    /\ RunVerdicts[2].status = "invalid"
    /\ RunVerdicts[2].row_index = 2

(***************************************************************************)
(* The days on which a schedule is due                                      *)
(***************************************************************************)
TheSchedule == product_schedule[1]
DeadlineDay == TheSchedule.deadline_day[1]
WindowOf(schedule) == IF schedule.frequency = "annual" THEN 28 ELSE 7

\* C25: a schedule is due only in the days before its deadline: a monthly or
\* bi-annual one only on days d with deadline_day - 7 <= d <= deadline_day,
\* an annual one only on days d with deadline_day - 28 <= d <= deadline_day;
\* never on a day of the month after deadline_day.
C25_DueOnlyBeforeDeadline ==
    (Aggregated /\ Len(product_schedule) = 1 /\ Aggregate.periodic_trigger) =>
        /\ DeadlineDay - WindowOf(TheSchedule) <= now.day
        /\ now.day <= DeadlineDay

\* what the code does: a schedule is due from the first day of its window to
\* the end of the month (of every month, of its deadline months, of its
\* deadline month)
C25_DueFromWindowStart ==
    (Aggregated /\ Len(product_schedule) = 1) =>
        (Aggregate.periodic_trigger <=>
            /\ now.day >= DeadlineDay - WindowOf(TheSchedule)
            /\ TheSchedule.frequency = "bi-annual" => now.month \in TheSchedule.deadline_months
            /\ TheSchedule.frequency = "annual" => <<now.month>> = TheSchedule.deadline_month)

\* the 28 days before an annual deadline in March (February has 28 days)
InAnnualWindow ==
    \/ now.month = 3 /\ DeadlineDay - 28 <= now.day /\ now.day <= DeadlineDay
    \/ now.month = 2 /\ now.day <= 28 /\ (28 - now.day) + DeadlineDay <= 28

\* C26: an annual schedule is due on every day of the 28 days before its
\* deadline, the days of the month before the deadline month included
\* (February for a deadline in March with a day under 28).
C26_AnnualWindowSpansMonths ==
    (/\ Aggregated
     /\ Len(product_schedule) = 1
     /\ TheSchedule.frequency = "annual"
     /\ InAnnualWindow) => Aggregate.periodic_trigger

(***************************************************************************)
(* Required columns                                                         *)
(***************************************************************************)
Required(col) == InSeq(col, validation_config.required_columns)

\* some verdict lists the column in missing_columns
ListedMissing(col) ==
    \E k \in 1..Len(RunVerdicts) : InSeq(col, RunVerdicts[k].missing_columns)

\* C27: whenever a row of the table has a null in a column of
\* required_columns, the report flags it: is_valid is false and the column
\* is reported as missing (in a verdict's missing_columns or as a key of
\* missing_by_column), also when the column's name holds a skip_columns
\* entry or the row is skipped for its frequency.
C27_RequiredColumnsFlagged ==
    RunDone =>
        \A c \in 1..Len(RunTable.columns) :
            (Required(RunTable.columns[c]) /\ ColumnHasNull(c)) =>
                /\ ~ RunReport.is_valid
                /\ ListedMissing(RunTable.columns[c]) \/ IsKey(RunTable.columns[c])

(***************************************************************************)
(* Validity of the table                                                    *)
(***************************************************************************)
\* C28: in every report of a loaded table valid_rows + error_rows =
\* total_rows, and is_valid is true exactly when every verdict is valid,
\* that is when error_rows = 0; the errors list holds the invalid verdicts
\* only, so a skipped or missing row makes the table invalid without being
\* in errors; a table without rows is valid.
C28_ValidIffAllRowsValid ==
    RunDone =>
        /\ RunSummary.valid_rows + RunSummary.error_rows = RunSummary.total_rows
        /\ RunReport.is_valid <=> RowsWithStatus({"valid"}) = 1..Len(RunVerdicts)
        /\ RunReport.is_valid <=> RunSummary.error_rows = 0
        /\ Len(RunReport.errors) = Cardinality(RowsWithStatus({"invalid"}))
        /\ \A e \in 1..Len(RunReport.errors) : RunReport.errors[e].status = "invalid"
        /\ RunTable.rows = <<>> => RunReport.is_valid

\* one valid row and one skipped row: not valid, with an empty errors list
C28_Witness ==
    /\ RunDone
    /\ RowsWithStatus({"valid"}) = {1}
    /\ RowsWithStatus({"skipped"}) = {2}
    /\ ~ RunReport.is_valid
    /\ RunReport.errors = <<>>
    /\ RunSummary.error_rows = 1

(***************************************************************************)
(* One typed check per value                                                *)
(***************************************************************************)
IsRankFinding(finding) == Contains(<<" exceeds rank threshold (">>, finding)

\* C29: in a row that is not skipped every validated column has at most one
\* finding, so the row has no more findings than validated columns; a
\* percentage column ("%" or "percent" in its name) has none, also when its
\* name holds "rank" or "outcome number"; and the finding of a number in a
\* rank column is the threshold finding, also when the name holds "outcome
\* number".
C29_OneCheckPerValue ==
    RunDone =>
        \A k \in 1..Len(RunVerdicts), c \in 1..Len(ColumnsValidated) :
            NotSkipped(k) =>
                /\ Cardinality(FindingsFor(k, ColumnsValidated[c])) <= 1
                /\ Len(RunVerdicts[k].invalid_values) <= Len(ColumnsValidated)
                /\ IsPercentage(ColumnsValidated[c]) => FindingsFor(k, ColumnsValidated[c]) = {}
                /\ (/\ IsRank(ColumnsValidated[c])
                    /\ RunCell(k, ColumnsValidated[c]).t \in {"int", "float"})
                      => \A f \in FindingsFor(k, ColumnsValidated[c]) :
                             IsRankFinding(RunVerdicts[k].invalid_values[f])

\* 7 in two percentage columns named after ranks: no finding
C29_Witness ==
    /\ RunDone
    /\ Len(ColumnsValidated) = 3
    /\ IsPercentage(ColumnsValidated[1]) /\ IsRank(ColumnsValidated[1])
    /\ Len(RunTable.rows) = 1
    /\ RunTable.rows[1][1] = IntV(7)
    /\ RunTable.rows[1][2] = IntV(7)
    /\ RunVerdicts[1].status = "valid"
    /\ RunVerdicts[1].invalid_values = <<>>

\* 7 in the column Rank Outcome Number: the rank finding and no other
C29_RankBeforeOutcomeNumber ==
    /\ RunDone
    /\ Len(RunTable.rows) = 1
    /\ \E c \in 1..Len(ColumnsValidated) :
          /\ IsRank(ColumnsValidated[c]) /\ IsOutcomeNumber(ColumnsValidated[c])
          /\ RunCell(1, ColumnsValidated[c]) = IntV(7)
          /\ Cardinality(FindingsFor(1, ColumnsValidated[c])) = 1
    /\ Len(RunVerdicts[1].invalid_values) = 1

(***************************************************************************)
(* The notification of a single-sheet run                                   *)
(***************************************************************************)
\* C30: a single-sheet run() does not fail and makes exactly one notifier
\* call, chosen by the validity of the sheet alone: the missing-data
\* notification with status completed_with_issues when is_valid is false,
\* the completion notification with status completed_success when it is
\* true, whatever schedules are configured and whatever the date; the
\* result records what the call returned.
C30_OneCallByValidity ==
    RunDone =>
        /\ workflow_result.workflow_status # "failed"
        /\ workflow_result.error = Absent
        /\ Len(notifier_calls) = 1
        /\ notifier_calls[1].caller = "run"
        /\ notifier_calls[1].sent = workflow_result.notification_sent
        /\ IF RunReport.is_valid
           THEN /\ notifier_calls[1].method = "send_completion_notification"
                /\ workflow_result.workflow_status = "completed_success"
                /\ workflow_result.notification_type = "completion"
           ELSE /\ notifier_calls[1].method = "send_missing_data_notification"
                /\ workflow_result.workflow_status = "completed_with_issues"
                /\ workflow_result.notification_type = "missing_data"

\* a valid sheet on a day on which the schedule of product P1 is due
C30_Witness ==
    /\ RunDone
    /\ Len(product_schedule) = 1
    /\ schedule_check(product_schedule[1]) = "due"
    /\ RunReport.is_valid
    /\ Len(RunVerdicts) = 2
    /\ notifier_calls[1].method = "send_completion_notification"
    /\ workflow_result.notification_sent
=============================================================================
